---- MODULE Spec2Model ----
(***************************************************************************)
(* trash-list (trashcli/list.py): the trash directory selector             *)
(* (TrashDirsSelector.select, a generator) and the listing loop            *)
(* (ListCmd.list_trash / ListCmd._print_trashinfo).                        *)
(*                                                                         *)
(* Paths and output lines are sequences of tokens: "/" is the path         *)
(* separator, every other token is one path component or one fixed piece   *)
(* of text.  Two specifications are given:                                 *)
(*   Spec     one run of the command: ListCmd is constructed and           *)
(*            list_trash is called, as main() / run() do;                  *)
(*   SpecSel  a TrashDirsSelector whose select generator is driven by an   *)
(*            arbitrary consumer, any number of times.                     *)
(***************************************************************************)
EXTENDS Integers, Sequences, FiniteSets, TLC

\* ------------------------------------------------------------------ bounds
\* longest scan sequence (events the scanner yields)
MaxEvents == 2
\* most trashinfo files in one trash directory
MaxRecords == 2

\* ------------------------------------------------------------ small helpers
SeqsUpTo(S, n) == UNION {[1..k -> S] : k \in 0..n}

IsPrefix(p, q) == Len(p) <= Len(q) /\ SubSeq(q, 1, Len(p)) = p

Last(s) == s[Len(s)]

Front(s) == SubSeq(s, 1, Len(s) - 1)

\* --------------------------------------------------------------- event tags
trash_dir_found == "trash_dir_found"

trash_dir_skipped_because_parent_not_sticky == "trash_dir_skipped_because_parent_not_sticky"

trash_dir_skipped_because_parent_is_symlink == "trash_dir_skipped_because_parent_is_symlink"

\* ------------------------------------------------------------- environment
\* the root volume and one more mount point
RootVolume == <<"/">>

MountPoints == {RootVolume, <<"/", "m">>}

\* the home trash directory (on the root volume) and a top trash directory
\* of the other volume
HomeTrash == <<"/", "h">>

TopTrash == <<"/", "m", "/", "t">>

TrashDirs == {HomeTrash, TopTrash}

\* a trash directory of another user, only seen through all_users_dirs
OtherTrash == <<"/", "o">>

\* fstab.volume_of: the longest mount point that is a prefix of the path,
\* the root volume when none is
volume_of(path) ==
    LET cands == {m \in MountPoints : IsPrefix(m, path)}
    IN  IF cands = {} THEN RootVolume
        ELSE CHOOSE m \in cands : \A n \in cands : Len(n) <= Len(m)

\* the events TrashDirsScanner.scan_trash_dirs can yield
ScanEvents ==
    { <<trash_dir_found, <<HomeTrash, RootVolume>>>>,
      <<trash_dir_found, <<TopTrash, <<"/", "m">>>>>>,
      <<trash_dir_skipped_because_parent_not_sticky, <<TopTrash>>>>,
      <<trash_dir_skipped_because_parent_is_symlink, <<TopTrash>>>> }

\* the events an all_users_dirs list can hold
AllUsersLists ==
    { <<>>,
      << <<trash_dir_found, <<OtherTrash, RootVolume>>>> >>,
      << <<trash_dir_found, <<OtherTrash, RootVolume>>>>,
         <<trash_dir_skipped_because_parent_is_symlink, <<OtherTrash>>>> >> }

\* the values of --trash-dir (user_specified_dirs)
TrashDirArgs == { <<>>, <<TopTrash>>, <<TopTrash, HomeTrash>> }

\* what a trashinfo file and its backup copy can be:
\*   unreadable     contents_of fails with IOError
\*   nopath         readable, no Path field
\*   rel            Path=a (relative to the volume), dated, backup copy present
\*   abs_nobackup   Path=/b (absolute), undated, backup copy missing
RecordKinds == {"unreadable", "nopath", "rel", "abs_nobackup"}

Extractors == {"deletion_date", "size"}

VARIABLES
    scan,            \* what scan_trash_dirs yields on this filesystem
    all_users_dirs,  \* TrashDirsSelector.all_users_dirs
    infos,           \* the kinds of the trashinfo files of every trash directory
    curPos,          \* items taken so far from selector.current_user_dirs
    scanPulls,       \* next() calls the active select generator made on it
    gen,             \* the select generator: its arguments and where it stands
    yielded,         \* the events the select generator has yielded
    prevScan,        \* result of the second to last drained select(False, [])
    lastScan,        \* result of the last drained select(False, [])
    pc,              \* where list_trash stands
    extractor,       \* list_trash argument
    show_files,      \* list_trash argument
    event,           \* the event list_trash is handling
    volume,          \* the volume unpacked from the Found event
    trash_infos,     \* what is left of trash_dir.list_trashinfo(path)
    out,             \* lines written to ListCmdOutput.out
    err,             \* lines written to ListCmdOutput.err
    listed,          \* directories passed to list_trashinfo
    readLog,         \* trashinfo paths passed to file_reader.contents_of
    extractLog       \* trashinfo paths passed to extractor.extract_attribute

selVars == <<scan, all_users_dirs, infos, curPos, scanPulls, gen, yielded,
             prevScan, lastScan>>

cmdVars == <<pc, extractor, show_files, event, volume, trash_infos, out, err,
             listed, readLog, extractLog>>

vars == <<scan, all_users_dirs, infos, curPos, scanPulls, gen, yielded,
          prevScan, lastScan, pc, extractor, show_files, event, volume,
          trash_infos, out, err, listed, readLog, extractLog>>

\* ---------------------------------------------------------------- selector
NoGen == [all_users_flag |-> FALSE, user_specified_dirs |-> <<>>,
          pc |-> "none", idx |-> 0]

NoResult == <<"none">>

\* scan_trash_dirs returns a generator: the items not yet taken from it
current_user_dirs_has_next(pos) == pos < Len(scan)

current_user_dirs_item(pos) == scan[pos + 1]

\* faulty variant: the whole scan is drained before the first event is passed on
advance_drain(pos) == Len(scan)

\* "for dir in self.current_user_dirs: yield dir": one item is taken from
\* the scan for each event yielded
advance(pos) == pos + 1

\* faulty variant: the scan runs whether or not directories were given
select_branch_always_scan(all_users_flag, user_specified_dirs) ==
    IF all_users_flag THEN "all_users_dirs" ELSE "current_user_dirs"

\* the loop select enters first
select_branch(all_users_flag, user_specified_dirs) ==
    IF all_users_flag THEN "all_users_dirs"
    ELSE IF user_specified_dirs = <<>> THEN "current_user_dirs"
         ELSE "user_specified_dirs"

\* the event synthesized for an explicit directory
explicit_event(dir) == <<trash_dir_found, <<dir, volume_of(dir)>>>>

\* One next() on the select generator g, the scan standing at pos: the
\* generator runs to its next yield (yield = <<event>>) or to its end
\* (yield = <<>>, StopIteration).
RECURSIVE select(_, _, _)
select(g, pos, pulls) ==
    CASE g.pc = "start" ->
           select([g EXCEPT !.pc = select_branch(g.all_users_flag,
                                                 g.user_specified_dirs),
                            !.idx = 0], pos, pulls)
      [] g.pc = "all_users_dirs" ->
           IF g.idx < Len(all_users_dirs)
           THEN [gen |-> [g EXCEPT !.idx = g.idx + 1], pos |-> pos,
                 pulls |-> pulls, yield |-> <<all_users_dirs[g.idx + 1]>>]
           ELSE [gen |-> [g EXCEPT !.pc = "done"], pos |-> pos,
                 pulls |-> pulls, yield |-> <<>>]
      [] g.pc = "current_user_dirs" ->
           IF current_user_dirs_has_next(pos)
           THEN [gen |-> g, pos |-> advance(pos), pulls |-> pulls + 1,
                 yield |-> <<current_user_dirs_item(pos)>>]
           ELSE select([g EXCEPT !.pc = "user_specified_dirs", !.idx = 0],
                       pos, pulls + 1)
      [] g.pc = "user_specified_dirs" ->
           IF g.idx < Len(g.user_specified_dirs)
           THEN [gen |-> [g EXCEPT !.idx = g.idx + 1], pos |-> pos,
                 pulls |-> pulls,
                 yield |-> <<explicit_event(g.user_specified_dirs[g.idx + 1])>>]
           ELSE [gen |-> [g EXCEPT !.pc = "done"], pos |-> pos,
                 pulls |-> pulls, yield |-> <<>>]
      [] OTHER ->
           [gen |-> [g EXCEPT !.pc = "done"], pos |-> pos, pulls |-> pulls,
            yield |-> <<>>]

GenActive == gen.pc \notin {"none", "done", "closed"}

\* selector.select(all_users_flag, user_specified_dirs): a generator object
\* is made; nothing of its body runs yet
select_call(all_users_flag, user_specified_dirs) ==
    /\ gen' = [all_users_flag |-> all_users_flag,
               user_specified_dirs |-> user_specified_dirs,
               pc |-> "start", idx |-> 0]
    /\ yielded' = <<>>
    /\ scanPulls' = 0

\* next(generator): the part common to every consumer
select_next ==
    LET r == select(gen, curPos, scanPulls)
    IN  /\ gen' = r.gen
        /\ curPos' = r.pos
        /\ scanPulls' = r.pulls
        /\ yielded' = yielded \o r.yield

\* ---- SpecSel: a consumer of the selector
InitSel ==
    /\ scan \in SeqsUpTo(ScanEvents, MaxEvents)
    /\ all_users_dirs \in AllUsersLists
    /\ infos = <<>>
    /\ curPos = 0
    /\ scanPulls = 0
    /\ gen = NoGen
    /\ yielded = <<>>
    /\ prevScan = NoResult
    /\ lastScan = NoResult
    /\ pc = "client"
    /\ extractor = "deletion_date"
    /\ show_files = FALSE
    /\ event = <<>>
    /\ volume = <<>>
    /\ trash_infos = <<>>
    /\ out = <<>>
    /\ err = <<>>
    /\ listed = <<>>
    /\ readLog = <<>>
    /\ extractLog = <<>>

consumer_select ==
    /\ ~GenActive
    /\ \E f \in BOOLEAN, d \in TrashDirArgs : select_call(f, d)
    /\ UNCHANGED <<scan, all_users_dirs, infos, curPos, prevScan, lastScan>>
    /\ UNCHANGED cmdVars

consumer_next ==
    /\ GenActive
    /\ select_next
    /\ LET r == select(gen, curPos, scanPulls)
       IN  IF r.yield = <<>> /\ ~gen.all_users_flag
              /\ gen.user_specified_dirs = <<>>
           THEN /\ prevScan' = lastScan
                /\ lastScan' = <<"events", yielded>>
           ELSE UNCHANGED <<prevScan, lastScan>>
    /\ UNCHANGED <<scan, all_users_dirs, infos>>
    /\ UNCHANGED cmdVars

consumer_stop ==
    /\ GenActive
    /\ gen' = [gen EXCEPT !.pc = "closed"]
    /\ UNCHANGED <<scan, all_users_dirs, infos, curPos, scanPulls, yielded,
                   prevScan, lastScan>>
    /\ UNCHANGED cmdVars

NextSel == consumer_select \/ consumer_next \/ consumer_stop

SpecSel == InitSel /\ [][NextSel]_vars

\* ------------------------------------------------------------- file system
\* TrashDirReader.list_trashinfo(path): the trashinfo files of a directory,
\* none for a directory that does not exist
InfoPath(dir, j) == dir \o <<"/", "info", "/", ToString(j), ".trashinfo">>

list_trashinfo(path) ==
    IF path \in TrashDirs THEN [j \in 1..Len(infos) |-> InfoPath(path, j)]
    ELSE <<>>

\* what the file system holds at a trashinfo path
KindOf(trashinfo_path) ==
    infos[CHOOSE j \in 1..Len(infos) :
              trashinfo_path[Len(trashinfo_path) - 1] = ToString(j)]

DeletionDate == <<"2021-01-01T10:00:00">>

ContentsOfKind(kind) ==
    CASE kind = "nopath" -> << <<"DeletionDate", DeletionDate>> >>
      [] kind = "rel" -> << <<"Path", <<"a">>>>,
                            <<"DeletionDate", DeletionDate>> >>
      [] OTHER -> << <<"Path", <<"/", "b">>>> >>

\* FileSystemReader.contents_of: the contents, or IOError
contents_of(trashinfo_path) ==
    IF KindOf(trashinfo_path) = "unreadable"
    THEN [ok |-> FALSE, error |-> <<"IOError: ">> \o trashinfo_path]
    ELSE [ok |-> TRUE, contents |-> ContentsOfKind(KindOf(trashinfo_path))]

\* trash.parse_path: the value of the Path line, ParseError without one
parse_path(contents) ==
    LET hits == {i \in 1..Len(contents) : contents[i][1] = "Path"}
    IN  IF hits = {} THEN [ok |-> FALSE]
        ELSE [ok |-> TRUE,
              path |-> contents[CHOOSE i \in hits : \A k \in hits : i <= k][2]]

\* trash.maybe_parse_deletion_date: the date, empty when there is none
maybe_parse_deletion_date(contents) ==
    LET hits == {i \in 1..Len(contents) : contents[i][1] = "DeletionDate"}
    IN  IF hits = {} THEN <<>>
        ELSE contents[CHOOSE i \in hits : \A k \in hits : i <= k][2]

\* trash.path_of_backup_copy: <dir>/info/<name>.trashinfo -> <dir>/files/<name>
path_of_backup_copy(trashinfo_path) ==
    SubSeq(trashinfo_path, 1, Len(trashinfo_path) - 4)
        \o <<"files", "/", trashinfo_path[Len(trashinfo_path) - 1]>>

BackupSize == 42

\* fs.file_size: the size of the file, a failure (OSError) when it is missing
file_size(backup_copy) ==
    IF infos[CHOOSE j \in 1..Len(infos) : Last(backup_copy) = ToString(j)]
           = "abs_nobackup"
    THEN [ok |-> FALSE]
    ELSE [ok |-> TRUE, value |-> BackupSize]

\* os.path.join(a, b)
os_path_join(a, b) ==
    IF b # <<>> /\ b[1] = "/" THEN b
    ELSE IF a = <<>> \/ Last(a) = "/" THEN a \o b
         ELSE a \o <<"/">> \o b

\* ------------------------------------------------------------ ListCmdOutput
\* faulty variant: the line is dropped
println_drop(stream, line) == stream

println(stream, line) == Append(stream, line)

error(stream, line) == Append(stream, line)

print_read_error(stream, e) == error(stream, e)

\* faulty variant: the diagnostic does not say which file
print_parse_path_error_anonymous(stream, offending_file) ==
    error(stream, <<"Parse Error: ">> \o <<": Unable to parse Path.">>)

print_parse_path_error(stream, offending_file) ==
    error(stream, <<"Parse Error: ">> \o offending_file
                      \o <<": Unable to parse Path.">>)

top_trashdir_skipped_because_parent_not_sticky(stream, trashdir) ==
    error(stream, <<"TrashDir skipped because parent not sticky: ">>
                      \o trashdir)

\* faulty variant: the symlink case reports the wrong directory: its parent
top_trashdir_skipped_because_parent_is_symlink_parent(stream, trashdir) ==
    error(stream, <<"TrashDir skipped because parent is symlink: ">>
                      \o Front(trashdir))

top_trashdir_skipped_because_parent_is_symlink(stream, trashdir) ==
    error(stream, <<"TrashDir skipped because parent is symlink: ">>
                      \o trashdir)

\* -------------------------------------------------------------- extractors
format_line(attribute, original_location) ==
    attribute \o <<" ">> \o original_location

format_line2(attribute, original_location, original_file) ==
    attribute \o <<" ">> \o original_location \o <<" -> ">> \o original_file

DeletionDateExtractor_extract_attribute(trashinfo_path, contents) ==
    [ok |-> TRUE, value |-> maybe_parse_deletion_date(contents)]

\* str(file_size(backup_copy)); a failure of file_size is not handled here
SizeExtractor_extract_attribute(trashinfo_path, contents) ==
    LET size == file_size(path_of_backup_copy(trashinfo_path))
    IN  IF size.ok THEN [ok |-> TRUE, value |-> <<ToString(size.value)>>]
        ELSE [ok |-> FALSE]

extract_attribute(ext, trashinfo_path, contents) ==
    IF ext = "size" THEN SizeExtractor_extract_attribute(trashinfo_path, contents)
    ELSE DeletionDateExtractor_extract_attribute(trashinfo_path, contents)

\* ----------------------------------------------------------------- ListCmd
\* faulty variant: the location is resolved against the root volume
original_location_root(vol, relative_location) ==
    os_path_join(RootVolume, relative_location)

\* original_location = os.path.join(volume, relative_location)
original_location(vol, relative_location) ==
    os_path_join(vol, relative_location)

\* faulty variant: a read error is not caught
read_error_caught_never(contents) == FALSE

\* "except IOError": the failure of contents_of is caught
read_error_caught(contents) == ~contents.ok

\* ListCmd._print_trashinfo on streams o (out) and e (err): the streams
\* after the call, whether the extractor was called, and whether an
\* exception left the method
print_trashinfo(o, e, vol, trashinfo_path, ext, show) ==
    LET contents == contents_of(trashinfo_path)
    IN  IF read_error_caught(contents)
        THEN [out |-> o, err |-> print_read_error(e, contents.error),
              extracted |-> FALSE, raised |-> FALSE]
        ELSE IF ~contents.ok
        THEN [out |-> o, err |-> e, extracted |-> FALSE, raised |-> TRUE]
        ELSE
        LET relative_location == parse_path(contents.contents)
        IN  IF ~relative_location.ok
            THEN [out |-> o,
                  err |-> print_parse_path_error(e, trashinfo_path),
                  extracted |-> FALSE, raised |-> FALSE]
            ELSE
            LET attribute == extract_attribute(ext, trashinfo_path,
                                               contents.contents)
                location == original_location(vol, relative_location.path)
            IN  IF ~attribute.ok
                THEN [out |-> o, err |-> e, extracted |-> TRUE,
                      raised |-> TRUE]
                ELSE [out |-> println(o,
                          IF show
                          THEN format_line2(attribute.value, location,
                                   path_of_backup_copy(trashinfo_path))
                          ELSE format_line(attribute.value, location)),
                      err |-> e, extracted |-> TRUE, raised |-> FALSE]

\* ---- Spec: ListCmd(...) has been constructed
Init ==
    /\ scan \in SeqsUpTo(ScanEvents, MaxEvents)
    /\ all_users_dirs = <<>>
    /\ infos \in SeqsUpTo(RecordKinds, MaxRecords)
    /\ curPos = 0
    /\ scanPulls = 0
    /\ gen = NoGen
    /\ yielded = <<>>
    /\ prevScan = NoResult
    /\ lastScan = NoResult
    /\ pc = "ready"
    /\ extractor = "deletion_date"
    /\ show_files = FALSE
    /\ event = <<>>
    /\ volume = <<>>
    /\ trash_infos = <<>>
    /\ out = <<>>
    /\ err = <<>>
    /\ listed = <<>>
    /\ readLog = <<>>
    /\ extractLog = <<>>

\* list_trash(user_specified_trash_dirs, extractor, show_files) is entered:
\* trash_dirs = self.selector.select(False, user_specified_trash_dirs)
list_trash ==
    /\ pc = "ready"
    /\ \E d \in TrashDirArgs, x \in Extractors, s \in BOOLEAN :
          /\ select_call(FALSE, d)
          /\ extractor' = x
          /\ show_files' = s
    /\ pc' = "for_event"
    /\ UNCHANGED <<scan, all_users_dirs, infos, curPos, prevScan, lastScan,
                   event, volume, trash_infos, out, err, listed, readLog,
                   extractLog>>

\* "for event, args in trash_dirs": the next event is taken, or the loop
\* and list_trash end
for_event ==
    /\ pc = "for_event"
    /\ select_next
    /\ LET r == select(gen, curPos, scanPulls)
       IN  IF r.yield = <<>>
           THEN pc' = "returned" /\ event' = <<>>
           ELSE pc' = "dispatch" /\ event' = r.yield[1]
    /\ UNCHANGED <<scan, all_users_dirs, infos, prevScan, lastScan, extractor,
                   show_files, volume, trash_infos, out, err, listed, readLog,
                   extractLog>>

\* event == trash_dir_found: the directory is listed
found ==
    /\ pc = "dispatch"
    /\ event[1] = trash_dir_found
    /\ volume' = event[2][2]
    /\ trash_infos' = list_trashinfo(event[2][1])
    /\ listed' = Append(listed, event[2][1])
    /\ pc' = "for_trash_info"
    /\ UNCHANGED selVars
    /\ UNCHANGED <<extractor, show_files, event, out, err, readLog, extractLog>>

\* event == trash_dir_skipped_because_parent_not_sticky
skipped_not_sticky ==
    /\ pc = "dispatch"
    /\ event[1] = trash_dir_skipped_because_parent_not_sticky
    /\ err' = top_trashdir_skipped_because_parent_not_sticky(err, event[2][1])
    /\ pc' = "for_event"
    /\ UNCHANGED selVars
    /\ UNCHANGED <<extractor, show_files, event, volume, trash_infos, out,
                   listed, readLog, extractLog>>

\* event == trash_dir_skipped_because_parent_is_symlink
skipped_symlink ==
    /\ pc = "dispatch"
    /\ event[1] = trash_dir_skipped_because_parent_is_symlink
    /\ err' = top_trashdir_skipped_because_parent_is_symlink(err, event[2][1])
    /\ pc' = "for_event"
    /\ UNCHANGED selVars
    /\ UNCHANGED <<extractor, show_files, event, volume, trash_infos, out,
                   listed, readLog, extractLog>>

\* "for trash_info in trash_dir.list_trashinfo(path)": one record is printed;
\* an exception leaving _print_trashinfo leaves list_trash too
for_trash_info ==
    /\ pc = "for_trash_info"
    /\ trash_infos # <<>>
    /\ LET trash_info == Head(trash_infos)
           r == print_trashinfo(out, err, volume, trash_info, extractor,
                                show_files)
       IN  /\ out' = r.out
           /\ err' = r.err
           /\ readLog' = Append(readLog, trash_info)
           /\ extractLog' = IF r.extracted THEN Append(extractLog, trash_info)
                            ELSE extractLog
           /\ pc' = IF r.raised THEN "raised" ELSE "for_trash_info"
    /\ trash_infos' = Tail(trash_infos)
    /\ UNCHANGED selVars
    /\ UNCHANGED <<extractor, show_files, event, volume, listed>>

\* the directory has no more records: back to the event loop
end_of_trash_dir ==
    /\ pc = "for_trash_info"
    /\ trash_infos = <<>>
    /\ pc' = "for_event"
    /\ UNCHANGED selVars
    /\ UNCHANGED <<extractor, show_files, event, volume, trash_infos, out, err,
                   listed, readLog, extractLog>>

Next ==
    \/ list_trash
    \/ for_event
    \/ found
    \/ skipped_not_sticky
    \/ skipped_symlink
    \/ for_trash_info
    \/ end_of_trash_dir

Spec == Init /\ [][Next]_vars

\* =================================================================== claims
\* the Found events of the explicit directories, in the order supplied
ExplicitEvents(dirs) ==
    [i \in 1..Len(dirs) |-> <<trash_dir_found, <<dirs[i], volume_of(dirs[i])>>>>]

\* C1: whenever user_specified_dirs is non-empty, select yields exactly one
\* Found event per explicit directory, whatever all_users_flag is (so the
\* events yielded so far are a prefix of those, and all of them once the
\* generator has ended).  Fails on the code: with all_users_flag set the
\* events of all_users_dirs are yielded and the explicit directories dropped.
C1_ExplicitDirsWhateverTheFlag ==
    (gen.pc # "none" /\ gen.user_specified_dirs # <<>>)
        => /\ IsPrefix(yielded, ExplicitEvents(gen.user_specified_dirs))
           /\ gen.pc = "done"
                 => yielded = ExplicitEvents(gen.user_specified_dirs)

\* C2: with all_users_flag = False and explicit directories d1..dn, select
\* yields (trash_dir_found, (di, volume_of(di))) for i = 1..n in that order
\* and nothing else (no skip event, no event of the scan), and the
\* current-user scan sequence is never pulled from.
C2_ExplicitDirsFoundInOrder ==
    (gen.pc # "none" /\ ~gen.all_users_flag /\ gen.user_specified_dirs # <<>>)
        => /\ IsPrefix(yielded, ExplicitEvents(gen.user_specified_dirs))
           /\ gen.pc = "done"
                 => yielded = ExplicitEvents(gen.user_specified_dirs)
           /\ \A i \in 1..Len(yielded) : yielded[i][1] = trash_dir_found
           /\ scanPulls = 0

\* C2 witness: select(False, [TopTrash, HomeTrash]) has run to its end on a
\* selector whose scan would skip TopTrash and has not been touched
C2_Witness ==
    /\ gen.pc = "done"
    /\ ~gen.all_users_flag
    /\ gen.user_specified_dirs = <<TopTrash, HomeTrash>>
    /\ Len(yielded) = 2
    /\ scan # <<>>
    /\ scan[1][1] = trash_dir_skipped_because_parent_not_sticky
    /\ curPos = 0

\* C3: on an unchanged filesystem two drained select(False, []) on the same
\* selector yield the same sequence of events.  Fails on the code: the scan
\* sequence is made once, in ListCmd.__init__, and the first invocation
\* consumes it.
C3_SecondScanEqualsFirst ==
    (prevScan # NoResult /\ lastScan # NoResult) => lastScan = prevScan

\* ---- the records list_trash has handed to _print_trashinfo, as the events
\* ---- yielded so far and the position in the current directory give them
RecordsOf(e) ==
    IF e[1] = trash_dir_found
    THEN [j \in 1..Len(list_trashinfo(e[2][1])) |->
             [volume |-> e[2][2], path |-> list_trashinfo(e[2][1])[j]]]
    ELSE <<>>

RECURSIVE Flatten(_)
Flatten(events) ==
    IF events = <<>> THEN <<>>
    ELSE RecordsOf(Head(events)) \o Flatten(Tail(events))

InsideEvent == pc \in {"dispatch", "for_trash_info", "raised"}

Completed == IF InsideEvent THEN Front(yielded) ELSE yielded

Handled ==
    IF pc \in {"for_trash_info", "raised"}
    THEN Flatten(Completed)
             \o SubSeq(RecordsOf(event), 1,
                       Len(RecordsOf(event)) - Len(trash_infos))
    ELSE Flatten(Completed)

\* lines an event is due once it is fully handled
RECURSIVE LinesDue(_)
LinesDue(events) ==
    IF events = <<>> THEN 0
    ELSE (IF Head(events)[1] = trash_dir_found
          THEN Len(RecordsOf(Head(events))) ELSE 1)
         + LinesDue(Tail(events))

\* C9: selection and listing are pull-based: the scan has given at most as
\* many events as the consumer has taken from select (so a consumer that
\* stops leaves the rest of the scan untouched), and when list_trash takes
\* event i+1 every line of the events before it has been written.
C9_LazyPullBased ==
    /\ curPos <= Len(yielded)
    /\ scanPulls <= Len(yielded) + 1
    /\ pc \in {"for_event", "dispatch", "returned"}
          => Len(out) + Len(err) = LinesDue(Completed)

\* C9 witness: list_trash stopped inside the first of two scanned
\* directories; the second event was never pulled from the scan
C9_Witness ==
    /\ pc = "raised"
    /\ gen.user_specified_dirs = <<>>
    /\ Len(scan) = 2
    /\ curPos = 1
    /\ Len(yielded) = 1

\* ---- what the file system says about a handled record
IsUnparsed(h) == KindOf(h.path) \in {"unreadable", "nopath"}

\* the record gets a listing line: it is read and parsed and its attribute
\* can be extracted (the size of a missing backup copy cannot)
IsListable(h) ==
    \/ KindOf(h.path) = "rel"
    \/ KindOf(h.path) = "abs_nobackup" /\ extractor = "deletion_date"

PathField(h) == IF KindOf(h.path) = "rel" THEN <<"a">> ELSE <<"/", "b">>

ExpectedDiag(h) ==
    IF KindOf(h.path) = "unreadable" THEN <<"IOError: ">> \o h.path
    ELSE <<"Parse Error: ">> \o h.path \o <<": Unable to parse Path.">>

\* a relative path goes under the volume, an absolute path stays as it is
ExpectedLocation(h) ==
    IF PathField(h)[1] = "/" THEN PathField(h)
    ELSE IF h.volume = RootVolume THEN <<"/">> \o PathField(h)
         ELSE h.volume \o <<"/">> \o PathField(h)

IsSkipLine(line) ==
    line[1] \in {"TrashDir skipped because parent not sticky: ",
                 "TrashDir skipped because parent is symlink: "}

IsRecordDiag(line) == ~IsSkipLine(line)

RecordDiags == SelectSeq(err, IsRecordDiag)

\* the location printed in a listing line: what stands between the first
\* " " and the " -> " of the --files form
LocationOf(line) ==
    LET first == CHOOSE i \in 1..Len(line) :
                     line[i] = " " /\ \A k \in 1..(i - 1) : line[k] # " "
        arrows == {i \in 1..Len(line) : line[i] = " -> "}
        last == IF arrows = {} THEN Len(line)
                ELSE (CHOOSE i \in arrows : \A k \in arrows : i <= k) - 1
    IN  SubSeq(line, first + 1, last)

\* C4: in size mode a record whose path parses but whose backup copy cannot
\* be sized does not abort list_trash; it is reported by a diagnostic line
\* of its own, so every handled record has one line.  Fails on the code:
\* the failure of file_size leaves _print_trashinfo and list_trash.
C4_SizeFailureIsReported ==
    extractor = "size"
        => /\ pc # "raised"
           /\ Len(out) + Len(RecordDiags) = Len(Handled)

\* C5: a record that cannot be read (IOError) or parsed (ParseError) is
\* isolated: every record up to the current one was handed to
\* _print_trashinfo, an exception never leaves list_trash because of such a
\* record, each such record has its diagnostic, in order, and every record
\* that can be listed has its listing line.
C5_RecordFailuresIsolated ==
    /\ readLog = [i \in 1..Len(Handled) |-> Handled[i].path]
    /\ pc = "raised" => Handled # <<>> /\ ~IsUnparsed(Last(Handled))
    /\ RecordDiags = [i \in 1..Len(SelectSeq(Handled, IsUnparsed)) |->
                          ExpectedDiag(SelectSeq(Handled, IsUnparsed)[i])]
    /\ Len(out) = Len(SelectSeq(Handled, IsListable))

\* C5 witness: two directories, each an unreadable record followed by a
\* listable one, in size mode: both listable records were printed
C5_Witness ==
    /\ pc = "returned"
    /\ extractor = "size"
    /\ infos = <<"unreadable", "rel">>
    /\ Len(Handled) = 4
    /\ Len(out) = 2
    /\ Len(RecordDiags) = 2

\* C6: a record without a well-formed Path field gets exactly one parse
\* error diagnostic on the error stream, naming its trashinfo path, and no
\* line on the output stream; the extractor is not called for it.
C6_ParseErrorDiagnostic ==
    [][ (pc = "for_trash_info" /\ trash_infos # <<>>
            /\ KindOf(Head(trash_infos)) = "nopath")
        => /\ err' = Append(err, <<"Parse Error: ">> \o Head(trash_infos)
                                     \o <<": Unable to parse Path.">>)
           /\ out' = out
           /\ extractLog' = extractLog ]_vars

\* C6 witness: a record without Path has been handled in size mode
C6_Witness ==
    /\ Handled # <<>>
    /\ KindOf(Last(Handled).path) = "nopath"
    /\ extractor = "size"
    /\ err # <<>>
    /\ Last(err) = ExpectedDiag(Last(Handled))

\* C7: for a SkippedNotSticky or SkippedSymlink event list_trash writes one
\* diagnostic naming the directory, lists and reads nothing, writes no
\* listing line and goes on to the next event; the directories listed are
\* those of the Found events only.
C7_SkippedDirNeverScanned ==
    /\ [](listed = [i \in 1..Len(SelectSeq(IF pc = "dispatch"
                                               THEN Front(yielded)
                                               ELSE yielded,
                                  LAMBDA e : e[1] = trash_dir_found)) |->
                       SelectSeq(IF pc = "dispatch" THEN Front(yielded)
                                 ELSE yielded,
                                 LAMBDA e : e[1] = trash_dir_found)[i][2][1]])
    /\ [][ (pc = "dispatch" /\ event[1] # trash_dir_found)
           => /\ err' = Append(err,
                    (IF event[1] = trash_dir_skipped_because_parent_not_sticky
                     THEN <<"TrashDir skipped because parent not sticky: ">>
                     ELSE <<"TrashDir skipped because parent is symlink: ">>)
                    \o event[2][1])
              /\ out' = out
              /\ listed' = listed
              /\ readLog' = readLog
              /\ pc' = "for_event" ]_vars

\* C7 witness: a skip event was followed by a Found event whose records
\* were printed, and the skipped directory holds records
C7_Witness ==
    /\ pc = "returned"
    /\ Len(yielded) = 2
    /\ yielded[1][1] = trash_dir_skipped_because_parent_is_symlink
    /\ yielded[2][1] = trash_dir_found
    /\ infos # <<>>
    /\ Len(err) >= 1
    /\ Len(out) >= 1
    /\ Len(listed) = 1

\* C8: the location printed for a record is its parsed path resolved
\* against the volume of the Found event of the directory it was listed
\* from: a relative path is prefixed by that volume, an absolute path is
\* printed unchanged.
C8_LocationResolvedAgainstVolume ==
    LET lines == SelectSeq(Handled, IsListable)
    IN  /\ Len(out) = Len(lines)
        /\ \A k \in 1..Len(out) :
              /\ LocationOf(out[k]) = ExpectedLocation(lines[k])
              /\ PathField(lines[k])[1] # "/"
                    => IsPrefix(lines[k].volume, LocationOf(out[k]))

\* C8 witness: one run printed the same relative path under two volumes
C8_Witness ==
    /\ Len(out) >= 2
    /\ \E i, j \in 1..Len(out) :
          /\ i < j
          /\ LocationOf(out[i]) = <<"/", "m", "/", "a">>
          /\ LocationOf(out[j]) = <<"/", "a">>

\* C10: in deletion-date mode list_trash is never left by an exception and
\* every record handed to _print_trashinfo has exactly one line, a listing
\* line on the output stream or a diagnostic on the error stream; the
\* listing lines stand in the order of the events and, within an event, of
\* the records.
C10_OneLinePerRecordInOrder ==
    extractor = "deletion_date"
        => LET lines == SelectSeq(Handled, IsListable)
               diags == SelectSeq(Handled, IsUnparsed)
               date(h) == IF KindOf(h.path) = "rel" THEN DeletionDate
                          ELSE <<>>
               backup(h) == SubSeq(h.path, 1, Len(h.path) - 4)
                              \o <<"files", "/", h.path[Len(h.path) - 1]>>
               line(h) == date(h) \o <<" ">> \o ExpectedLocation(h)
                            \o (IF show_files THEN <<" -> ">> \o backup(h)
                                ELSE <<>>)
           IN  /\ pc # "raised"
               /\ Len(out) + Len(RecordDiags) = Len(Handled)
               /\ out = [i \in 1..Len(lines) |-> line(lines[i])]
               /\ RecordDiags = [i \in 1..Len(diags) |-> ExpectedDiag(diags[i])]

\* C10 witness: a run in deletion-date mode over two directories printed
\* different listing lines and a diagnostic
C10_Witness ==
    /\ pc = "returned"
    /\ extractor = "deletion_date"
    /\ Len(yielded) = 2
    /\ Len(out) >= 2
    /\ out[1] # out[2]
    /\ Len(RecordDiags) >= 1

====
